---- MODULE Spec2Model ----
(***************************************************************************)
(* Model of dxpy.executable_builder (argument handling and dispatch of     *)
(* `dx build`) and dxpy.workflow_builder (validation of dxworkflow.json    *)
(* and creation of the workflow).                                          *)
(*                                                                         *)
(* A JSON object (a Python dict) is a function from its keys to values, so *)
(* `k in d` is k \in DOMAIN d.  String-valued fields hold strings; the     *)
(* "stages" field holds a record [isList, items] because a manifest may    *)
(* give it a non-list value.  Python's None is the string NoneVal.         *)
(***************************************************************************)
EXTENDS Integers, Sequences, FiniteSets, TLC

VARIABLES
    pc,                 \* position of the running call
    args,               \* the argparse Namespace of executable_builder.build
    AUTH_HELPER,        \* dxpy.AUTH_HELPER: TRUE when logged in
    WORKSPACE_ID,       \* dxpy.WORKSPACE_ID: a project id or NoneVal
    src,                \* the source directory: [isdir, files]
    raw_json,           \* dxworkflow.json as parsed, before validation
    json_spec,          \* the manifest object the caller holds (mutated in place)
    validated_spec,     \* local validated_spec of build_workflow
    warnings,           \* the warnings printed so far
    exc,                \* the exception that ended the call, or NoExc
    workflow_new_calls, \* payloads of the /workflow/new requests issued
    dx_build_app_calls, \* number of calls of dx_build_app.build
    workflow_id,        \* value returned by build_workflow
    json_before,        \* manifest object before the last inlining call
    inline_calls,       \* number of calls of _inline_documentation_files
    call,               \* the entry point called: "build" or "build_workflow"
    cli_mode,           \* args.mode as the command line gave it
    step                \* the last step of the call that ran

vars == <<call, cli_mode, step, pc, args, AUTH_HELPER, WORKSPACE_ID, src, raw_json, json_spec,
          validated_spec, warnings, exc, workflow_new_calls,
          dx_build_app_calls, workflow_id, json_before, inline_calls>>

-----------------------------------------------------------------------------
(* Bounds and input alphabets *)

MaxStages == 2

NoneVal == "<None>"
EmptyDict == [k \in {} |-> NoneVal]

\* dict[key] = value
Put(d, key, value) ==
    [k \in DOMAIN d \cup {key} |-> IF k = key THEN value ELSE d[k]]

\* Python truthiness of a string-or-None value
Truthy(v) == v \notin {NoneVal, ""}

NoExc == [kind |-> "none", msg |-> "", index |-> -1]
Exc(kind, msg, index) == [kind |-> kind, msg |-> msg, index |-> index]

ReadmeNames == <<"README.md", "Readme.md", "readme.md">>
DeveloperReadmeNames ==
    <<"README.developer.md", "Readme.developer.md", "readme.developer.md">>
AllReadmes ==
    {ReadmeNames[i] : i \in 1..3} \cup {DeveloperReadmeNames[i] : i \in 1..3}

\* fh.read(): every file has its own contents
ReadFile(filename) ==
    CASE filename = "README.md" -> "text of README.md"
      [] filename = "Readme.md" -> "text of Readme.md"
      [] filename = "readme.md" -> "text of readme.md"
      [] filename = "README.developer.md" -> "text of README.developer.md"
      [] filename = "Readme.developer.md" -> "text of Readme.developer.md"
      [] OTHER -> "text of readme.developer.md"

-----------------------------------------------------------------------------
(* workflow_builder.py *)

\* _add_project_to_spec: [raised, exc, json_spec]; the dict is changed in
\* place before the check, so json_spec is the object as the raise leaves it.
_add_project_to_spec(spec, workspace) ==
    LET s1 == IF "project" \notin DOMAIN spec
              THEN Put(spec, "project", workspace) ELSE spec
    IN  IF ~Truthy(s1["project"])
        THEN [raised |-> TRUE,
              exc |-> Exc("WorkflowBuilderException", "project not set", -1),
              json_spec |-> s1]
        ELSE [raised |-> FALSE, exc |-> NoExc, json_spec |-> s1]

\* the first name of `names` (in order) that exists in the directory, else NoneVal
FirstExisting(names, files) ==
    IF \E i \in 1..Len(names) : names[i] \in files
    THEN names[CHOOSE i \in 1..Len(names) :
                 /\ names[i] \in files
                 /\ \A j \in 1..(i - 1) : names[j] \notin files]
    ELSE NoneVal

\* InlineField without the `field not in json_spec` test: a present field
\* is overwritten by the readme
InlineField_overwriting(spec, field, names, files) ==
    LET readme_filename == FirstExisting(names, files)
    IN  IF readme_filename # NoneVal
        THEN Put(spec, field, ReadFile(readme_filename))
        ELSE spec

\* one half of _inline_documentation_files: field from the first file of names
InlineField(spec, field, names, files) ==
    IF field \notin DOMAIN spec
    THEN LET readme_filename == FirstExisting(names, files)
         IN  IF readme_filename # NoneVal
             THEN Put(spec, field, ReadFile(readme_filename))
             ELSE spec
    ELSE spec

_inline_documentation_files(spec, files) ==
    InlineField(InlineField(spec, "description", ReadmeNames, files),
                "developerNotes", DeveloperReadmeNames, files)

_get_unsupported_keys(keys, supported_keys) ==
    {key \in keys : key \notin supported_keys}

\* unicode + int: Python raises TypeError instead of building the string
PyStrPlusInt(str, int) ==
    Exc("TypeError", "cannot concatenate str and int objects", -1)

\* set(*argv): at most one (iterable) argument is accepted
PySet(argv) ==
    IF Len(argv) > 1
    THEN [raised |-> TRUE,
          exc |-> Exc("TypeError", "set expected at most 1 arguments", -1),
          value |-> {}]
    ELSE [raised |-> FALSE, exc |-> NoExc,
          value |-> IF Len(argv) = 0 THEN {}
                    ELSE {argv[1][i] : i \in 1..Len(argv[1])}]

StageWarning(keys) == [level |-> "stage", keys |-> keys]
RootWarning(keys) == [level |-> "root", keys |-> keys]

\* the argument of the raise of line 119; evaluating it raises TypeError, so
\* the WorkflowBuilderException is never constructed
MissingExecutableError(stage_index) ==
    PyStrPlusInt("executable is missing from stage number {}", stage_index)

\* _get_validated_stage: [raised, exc, stage, warnings]
_get_validated_stage(stage, stage_index) ==
    IF "executable" \notin DOMAIN stage
    THEN [raised |-> TRUE, exc |-> MissingExecutableError(stage_index),
          stage |-> stage, warnings |-> <<>>]
    ELSE LET supported_keys ==
                 PySet(<<"id", "input", "executable", "name", "folder", "input">>)
         IN  IF supported_keys.raised
             THEN [raised |-> TRUE, exc |-> supported_keys.exc,
                   stage |-> stage, warnings |-> <<>>]
             ELSE LET unsupported_keys ==
                          _get_unsupported_keys(DOMAIN stage, supported_keys.value)
                  IN  [raised |-> FALSE, exc |-> NoExc, stage |-> stage,
                       warnings |-> IF unsupported_keys # {}
                                    THEN <<StageWarning(unsupported_keys)>>
                                    ELSE <<>>]

\* the loop of _get_validated_stages from position i (1-based; enumerate's
\* index is i - 1), with the stages validated and the warnings printed so far
RECURSIVE ValidateStagesFrom(_, _, _, _)
ValidateStagesFrom(items, i, validated_stages, printed) ==
    IF i > Len(items)
    THEN [raised |-> FALSE, exc |-> NoExc,
          value |-> [isList |-> TRUE, items |-> validated_stages],
          warnings |-> printed]
    ELSE LET r == _get_validated_stage(items[i], i - 1)
         IN  IF r.raised
             THEN [raised |-> TRUE, exc |-> r.exc,
                   value |-> [isList |-> TRUE, items |-> validated_stages],
                   warnings |-> printed \o r.warnings]
             ELSE ValidateStagesFrom(items, i + 1,
                                     Append(validated_stages, r.stage),
                                     printed \o r.warnings)

\* _get_validated_stages: [raised, exc, value, warnings]
_get_validated_stages(stages) ==
    IF ~stages.isList
    THEN [raised |-> TRUE,
          exc |-> Exc("WorkflowBuilderException",
                      "Stages must be specified as an array or mappings", -1),
          value |-> stages, warnings |-> <<>>]
    ELSE ValidateStagesFrom(stages.items, 1, <<>>, <<>>)

\* _get_validated_json: [raised, exc, isNone, json_spec, warnings].  isNone:
\* the bare `return`; json_spec: the caller's dict as the call leaves it,
\* which is also the value returned when isNone is FALSE.
_get_validated_json(spec, src_dir, files, workspace) ==
    IF spec = EmptyDict \/ src_dir = ""
    THEN [raised |-> FALSE, exc |-> NoExc, isNone |-> TRUE,
          json_spec |-> spec, warnings |-> <<>>]
    ELSE
    LET supported_keys == PySet(<< <<"project", "name", "outputFolder", "stages">> >>)
        unsupported_keys == _get_unsupported_keys(DOMAIN spec, supported_keys.value)
        w1 == IF unsupported_keys # {} THEN <<RootWarning(unsupported_keys)>>
              ELSE <<>>
        s1 == _inline_documentation_files(spec, files)
        p  == _add_project_to_spec(s1, workspace)
    IN  IF p.raised
        THEN [raised |-> TRUE, exc |-> p.exc, isNone |-> FALSE,
              json_spec |-> p.json_spec, warnings |-> w1]
        ELSE IF "stages" \notin DOMAIN p.json_spec
        THEN [raised |-> FALSE, exc |-> NoExc, isNone |-> FALSE,
              json_spec |-> p.json_spec, warnings |-> w1]
        ELSE LET st == _get_validated_stages(p.json_spec["stages"])
             IN  IF st.raised
                 THEN [raised |-> TRUE, exc |-> st.exc, isNone |-> FALSE,
                       json_spec |-> p.json_spec, warnings |-> w1 \o st.warnings]
                 ELSE [raised |-> FALSE, exc |-> NoExc, isNone |-> FALSE,
                       json_spec |-> Put(p.json_spec, "stages", st.value),
                       warnings |-> w1 \o st.warnings]

\* _parse_executable_spec: [raised, exc, value].  `parser` is not a name of
\* workflow_builder, so line 69 raises NameError; open() raises IOError for
\* a missing file; e.message exists on Python 2 only.
_parse_executable_spec(dir, json_file_name, parsable, content, python2) ==
    IF ~dir.isdir
    THEN [raised |-> TRUE,
          exc |-> Exc("NameError", "name 'parser' is not defined", -1),
          value |-> EmptyDict]
    ELSE IF json_file_name \notin dir.files
    THEN [raised |-> TRUE, exc |-> Exc("IOError", "No such file", -1),
          value |-> EmptyDict]
    ELSE IF ~parsable
    THEN [raised |-> TRUE,
          exc |-> IF python2
                  THEN Exc("WorkflowBuilderException",
                           "Could not parse dxworkflow.json file as JSON", -1)
                  ELSE Exc("AttributeError", "no attribute 'message'", -1),
          value |-> EmptyDict]
    ELSE [raised |-> FALSE, exc |-> NoExc, value |-> content]

-----------------------------------------------------------------------------
(* executable_builder.py *)

\* parser.error(message): argparse prints the message and exits with status 2
ParserError(msg) == Exc("ParserError", msg, -1)

\* args.run: None without --run, else the list of the arguments after --run
RunNone == [isNone |-> TRUE, argv |-> <<>>]
RunList(argv) == [isNone |-> FALSE, argv |-> argv]
RunTruthy(run) == ~run.isNone /\ Len(run.argv) > 0

\* _get_mode testing for dxworkflow.json before dxapp.json
_get_mode_workflow_first(dir) ==
    IF ~dir.isdir
    THEN [raised |-> TRUE, exc |-> ParserError("is not a directory"),
          value |-> NoneVal]
    ELSE IF "dxworkflow.json" \in dir.files
    THEN [raised |-> FALSE, exc |-> NoExc, value |-> "workflow"]
    ELSE IF "dxapp.json" \in dir.files
    THEN [raised |-> FALSE, exc |-> NoExc, value |-> "app"]
    ELSE [raised |-> TRUE,
          exc |-> Exc("ExecutableBuilderException",
                      "does not contain dxapp.json nor dxworkflow.json", -1),
          value |-> NoneVal]

\* _get_mode: [raised, exc, value]
_get_mode(dir) ==
    IF ~dir.isdir
    THEN [raised |-> TRUE, exc |-> ParserError("is not a directory"),
          value |-> NoneVal]
    ELSE IF "dxapp.json" \in dir.files
    THEN [raised |-> FALSE, exc |-> NoExc, value |-> "app"]
    ELSE IF "dxworkflow.json" \in dir.files
    THEN [raised |-> FALSE, exc |-> NoExc, value |-> "workflow"]
    ELSE [raised |-> TRUE,
          exc |-> Exc("ExecutableBuilderException",
                      "does not contain dxapp.json nor dxworkflow.json", -1),
          value |-> NoneVal]

\* the --run/--remote/--app rule of _handle_arg_conflicts (line 214)
RunRemoteAppConflict(a) == RunTruthy(a.run) /\ a.remote /\ a.mode = "app"

\* _handle_arg_conflicts: the parser error of the first rule violated, or NoExc
_handle_arg_conflicts(a) ==
    IF a.mode = "app" /\ a.destination # "."
    THEN ParserError("--destination cannot be used when creating an app")
    ELSE IF a.mode = "applet" /\ a.region
    THEN ParserError("--region cannot be used when creating an applet")
    ELSE IF a.overwrite /\ a.archive
    THEN ParserError("--overwrite and --archive cannot be specified together")
    ELSE IF ~a.run.isNone /\ a.dry_run
    THEN ParserError("--dry-run and --run cannot be specified together")
    ELSE IF RunRemoteAppConflict(a)
    THEN ParserError("--remote, --app, and --run cannot all be specified together")
    ELSE IF a.mode = "workflow" /\ a.ensure_upload
    THEN ParserError("--ensure-upload is not supported for workflows")
    ELSE IF a.mode = "workflow" /\ a.force_symlinks
    THEN ParserError("--force-symlinks is not supported for workflows")
    ELSE IF a.mode = "workflow" /\ a.publish
    THEN ParserError("--publish is not yet supported for workflows")
    ELSE NoExc

\* the names module workflow_builder defines; build() calls workflow_builder.build
WorkflowBuilderNames ==
    {"WorkflowBuilderException", "_parse_executable_spec", "_add_project_to_spec",
     "_inline_documentation_files", "_get_unsupported_keys",
     "_get_validated_stage", "_get_validated_stages", "_get_validated_json",
     "_create_workflow", "build_workflow"}

\* the dispatch at the end of build(): which builder runs, or the exception
Dispatch(mode) ==
    IF mode \in {"app", "applet"}
    THEN [raised |-> FALSE, exc |-> NoExc, builder |-> "dx_build_app.build"]
    ELSE IF mode = "workflow"
    THEN IF "build" \in WorkflowBuilderNames
         THEN [raised |-> FALSE, exc |-> NoExc, builder |-> "workflow_builder.build"]
         ELSE [raised |-> TRUE,
               exc |-> Exc("AttributeError",
                           "module has no attribute 'build'", -1),
               builder |-> NoneVal]
    ELSE [raised |-> FALSE, exc |-> NoExc, builder |-> NoneVal]

-----------------------------------------------------------------------------
(* Inputs *)

ArgsSet ==
    [mode : {NoneVal, "app", "applet", "workflow"},
     destination : {".", "project-D"},
     region : BOOLEAN,
     overwrite : BOOLEAN,
     archive : BOOLEAN,
     run : {RunNone, RunList(<<>>), RunList(<<"-y">>)},
     dry_run : BOOLEAN,
     remote : BOOLEAN,
     ensure_upload : BOOLEAN,
     force_symlinks : BOOLEAN,
     publish : BOOLEAN]

\* the defaults of the parser (the Namespace printed at line 228)
DefaultArgs ==
    [mode |-> NoneVal, destination |-> ".", region |-> FALSE,
     overwrite |-> FALSE, archive |-> FALSE, run |-> RunNone,
     dry_run |-> FALSE, remote |-> FALSE, ensure_upload |-> FALSE,
     force_symlinks |-> FALSE, publish |-> FALSE]

NoDir == [path |-> "", isdir |-> FALSE, files |-> {}]

\* source directories seen by build(): a path that is no directory, or a
\* directory with any of the two manifests
BuildDirs ==
    {[path |-> "notadir", isdir |-> FALSE, files |-> {}]} \cup
    {[path |-> "srcdir", isdir |-> TRUE, files |-> f] :
        f \in SUBSET {"dxapp.json", "dxworkflow.json"}}

\* stages of a manifest: objects over these keys
StageKeySets ==
    {{}, {"executable"}, {"executable", "name"}, {"executable", "bar"}, {"name"}}
StageValue(key) == IF key = "executable" THEN "applet-123" ELSE "x"
StageSet == {[k \in K |-> StageValue(k)] : K \in StageKeySets}

RECURSIVE SeqsUpTo(_, _)
SeqsUpTo(S, n) ==
    IF n = 0 THEN {<<>>}
    ELSE LET shorter == SeqsUpTo(S, n - 1)
         IN  shorter \cup {Append(q, x) : q \in {t \in shorter : Len(t) = n - 1}, x \in S}

StagesValues ==
    {[isList |-> FALSE, items |-> <<>>]} \cup
    {[isList |-> TRUE, items |-> q] : q \in SeqsUpTo(StageSet, MaxStages)}

\* top-level fields of a manifest other than stages, with the values they take
StringFields == {"project", "name", "foo", "description"}
FieldValues(key) ==
    CASE key = "project" -> {"", "project-P"}
      [] key = "name" -> {"wf"}
      [] key = "foo" -> {"1"}
      [] OTHER -> {"own text"}

StringParts ==
    UNION {[K -> {"", "project-P", "wf", "1", "own text"}] : K \in SUBSET StringFields}

\* the manifests dxworkflow.json may hold
Manifests ==
    LET parts == {m \in StringParts : \A k \in DOMAIN m : m[k] \in FieldValues(k)}
    IN  parts \cup {Put(m, "stages", st) : m \in parts, st \in StagesValues}

\* readme files a workflow source directory may hold
WorkflowDirReadmes == {"README.md", "readme.md", "Readme.developer.md"}

WorkflowDirs ==
    {NoDir, [path |-> "notadir", isdir |-> FALSE, files |-> {}],
     [path |-> "wfdir", isdir |-> TRUE, files |-> {}]} \cup
    {[path |-> "wfdir", isdir |-> TRUE, files |-> {"dxworkflow.json"} \cup f] :
        f \in SUBSET WorkflowDirReadmes}

WorkspaceIds == {NoneVal, "project-ABC"}

NoSpec == [isNone |-> TRUE, dict |-> EmptyDict]
SomeSpec(d) == [isNone |-> FALSE, dict |-> d]

-----------------------------------------------------------------------------
(* The state machine *)

Init ==
    /\ pc = "start"
    /\ call = "none"
    /\ cli_mode = NoneVal
    /\ step = "none"
    /\ args = DefaultArgs
    /\ AUTH_HELPER = TRUE
    /\ WORKSPACE_ID = NoneVal
    /\ src = NoDir
    /\ raw_json = EmptyDict
    /\ json_spec = EmptyDict
    /\ validated_spec = NoSpec
    /\ warnings = <<>>
    /\ exc = NoExc
    /\ workflow_new_calls = <<>>
    /\ dx_build_app_calls = 0
    /\ workflow_id = NoneVal
    /\ json_before = EmptyDict
    /\ inline_calls = 0

\* an exception leaves the call: nothing after the raising statement runs
Raise(e) == pc' = "raised" /\ exc' = e

\* build(), lines 242-250: parse the arguments, require authentication
\* unless --dry-run, fix the source directory
build_parse_args ==
    /\ pc = "start"
    /\ \E a \in ArgsSet, auth \in BOOLEAN, d \in BuildDirs :
         /\ call' = "build"
         /\ cli_mode' = a.mode
         /\ step' = "parse_args"
         /\ args' = a
         /\ AUTH_HELPER' = auth
         /\ src' = d
         /\ IF ~auth /\ ~a.dry_run
            THEN Raise(ParserError("Authentication required"))
            ELSE pc' = "get_mode" /\ exc' = exc
    /\ UNCHANGED <<WORKSPACE_ID, raw_json, json_spec, validated_spec, warnings,
                   workflow_new_calls, dx_build_app_calls, workflow_id,
                   json_before, inline_calls>>

\* build(), lines 253-254
build_get_mode ==
    /\ pc = "get_mode"
    /\ step' = "get_mode"
    /\ IF args.mode = NoneVal
       THEN LET r == _get_mode(src)
            IN  IF r.raised
                THEN Raise(r.exc) /\ args' = args
                ELSE /\ args' = [args EXCEPT !.mode = r.value]
                     /\ pc' = "arg_conflicts"
                     /\ exc' = exc
       ELSE pc' = "arg_conflicts" /\ UNCHANGED <<args, exc>>
    /\ UNCHANGED <<call, cli_mode, AUTH_HELPER, WORKSPACE_ID, src, raw_json, json_spec,
                   validated_spec, warnings, workflow_new_calls,
                   dx_build_app_calls, workflow_id, json_before, inline_calls>>

\* build(), line 256
build_handle_arg_conflicts ==
    /\ pc = "arg_conflicts"
    /\ step' = "arg_conflicts"
    /\ LET e == _handle_arg_conflicts(args)
       IN  IF e # NoExc THEN Raise(e) ELSE pc' = "dispatch" /\ exc' = exc
    /\ UNCHANGED <<call, cli_mode, args, AUTH_HELPER, WORKSPACE_ID, src, raw_json,
                   json_spec, validated_spec, warnings, workflow_new_calls,
                   dx_build_app_calls, workflow_id, json_before, inline_calls>>

\* build(), lines 258-264
build_dispatch ==
    /\ pc = "dispatch"
    /\ step' = "dispatch"
    /\ LET r == Dispatch(args.mode)
       IN  IF r.raised
           THEN Raise(r.exc) /\ dx_build_app_calls' = dx_build_app_calls
           ELSE /\ pc' = "returned"
                /\ exc' = exc
                /\ dx_build_app_calls' =
                       IF r.builder = "dx_build_app.build"
                       THEN dx_build_app_calls + 1 ELSE dx_build_app_calls
    /\ UNCHANGED <<call, cli_mode, args, AUTH_HELPER, WORKSPACE_ID, src, raw_json,
                   json_spec, validated_spec, warnings, workflow_new_calls,
                   workflow_id, json_before, inline_calls>>

\* build_workflow going on to _create_workflow whatever validation did
AfterValidation_ignoring_errors(r) == "create"

\* where build_workflow continues after _get_validated_json (lines 182-184):
\* an exception propagates, a return goes on to _create_workflow
AfterValidation(r) == IF r.raised THEN "raised" ELSE "create"

\* build_workflow(src_dir, args), line 181
build_workflow_parse ==
    /\ pc = "start"
    /\ \E d \in WorkflowDirs, m \in Manifests, parsable \in BOOLEAN,
          python2 \in BOOLEAN, w \in WorkspaceIds, dest \in {".", "project-D"} :
         LET r == _parse_executable_spec(d, "dxworkflow.json", parsable, m, python2)
         IN  /\ call' = "build_workflow"
             /\ cli_mode' = "workflow"
             /\ step' = "parse"
             /\ args' = [DefaultArgs EXCEPT !.mode = "workflow", !.destination = dest]
             /\ src' = d
             /\ WORKSPACE_ID' = w
             /\ raw_json' = r.value
             /\ json_spec' = r.value
             /\ IF r.raised THEN Raise(r.exc) ELSE pc' = "validate" /\ exc' = exc
    /\ UNCHANGED <<AUTH_HELPER, validated_spec, warnings, workflow_new_calls,
                   dx_build_app_calls, workflow_id, json_before, inline_calls>>

\* build_workflow, line 182
build_workflow_validate ==
    /\ pc = "validate"
    /\ step' = "validate"
    /\ LET r == _get_validated_json(json_spec, src.path, src.files, WORKSPACE_ID)
       IN  /\ json_spec' = r.json_spec
           /\ warnings' = warnings \o r.warnings
           /\ pc' = AfterValidation(r)
           /\ exc' = r.exc
           /\ validated_spec' =
                  IF r.raised \/ r.isNone THEN NoSpec ELSE SomeSpec(r.json_spec)
    /\ UNCHANGED <<call, cli_mode, args, AUTH_HELPER, WORKSPACE_ID, src, raw_json,
                   workflow_new_calls, dx_build_app_calls, workflow_id,
                   json_before, inline_calls>>

\* build_workflow, lines 183-185, and _create_workflow: the request is
\* issued with validated_spec; the platform answers with an id or an error
build_workflow_create ==
    /\ pc = "create"
    /\ step' = "create"
    /\ workflow_new_calls' = Append(workflow_new_calls, validated_spec)
    /\ \E ok \in BOOLEAN :
         IF ok
         THEN pc' = "returned" /\ workflow_id' = "workflow-0001" /\ exc' = exc
         ELSE Raise(Exc("DXAPIError", "remote error", -1)) /\ workflow_id' = workflow_id
    /\ UNCHANGED <<call, cli_mode, args, AUTH_HELPER, WORKSPACE_ID, src, raw_json,
                   json_spec, validated_spec, warnings, dx_build_app_calls,
                   json_before, inline_calls>>

Next ==
    \/ build_parse_args
    \/ build_get_mode
    \/ build_handle_arg_conflicts
    \/ build_dispatch
    \/ build_workflow_parse
    \/ build_workflow_validate
    \/ build_workflow_create

Spec == Init /\ [][Next]_vars

-----------------------------------------------------------------------------
(* Properties of workflow validation *)

\* build_workflow has run _get_validated_json on a manifest it validates
\* (a non-empty one)
Validated ==
    call = "build_workflow" /\ step = "validate" /\ raw_json # EmptyDict

ProjectNotSet == Exc("WorkflowBuilderException", "project not set", -1)

DestinationSet == args.destination # "."
ManifestProjectPresent ==
    "project" \in DOMAIN raw_json /\ Truthy(raw_json["project"])
WorkspaceSet == Truthy(WORKSPACE_ID)

\* the project the precedence law names
PrecedenceProject ==
    IF DestinationSet THEN args.destination
    ELSE IF ManifestProjectPresent THEN raw_json["project"]
    ELSE WORKSPACE_ID

\* C1: for every CLI destination D, manifest project P (absent, or present
\* with an id) and workspace W, validation fails with "project not set"
\* exactly when none of the three is set, and a manifest it returns has
\* project = D if D is set, else P if present, else W.
C1_PrecedenceLaw ==
    (Validated /\ ("project" \in DOMAIN raw_json => Truthy(raw_json["project"])))
    => /\ (pc = "raised" /\ exc = ProjectNotSet)
             <=> ~(DestinationSet \/ ManifestProjectPresent \/ WorkspaceSet)
       /\ pc = "create" =>
             /\ ~validated_spec.isNone
             /\ validated_spec.dict["project"] = PrecedenceProject

\* the stages of the manifest as parsed
RawStages == raw_json["stages"]
HasStageList == "stages" \in DOMAIN raw_json /\ RawStages.isList

\* the code resolves a project for the manifest, so validation gets to the stages
ProjectResolvable ==
    IF "project" \in DOMAIN raw_json THEN Truthy(raw_json["project"])
    ELSE WorkspaceSet

LacksExecutable(i) == "executable" \notin DOMAIN RawStages.items[i]

\* enumerate's index of the first stage without 'executable'
FirstLackingIndex ==
    (CHOOSE i \in 1..Len(RawStages.items) :
        /\ LacksExecutable(i)
        /\ \A j \in 1..(i - 1) : ~LacksExecutable(j)) - 1

\* C2: when the stage at index i is the first without 'executable', stage
\* validation fails with a WorkflowBuilderException that names index i, and
\* with no other kind of error.
C2_MissingExecutableNamesIndex ==
    (/\ Validated /\ ProjectResolvable /\ HasStageList
     /\ \E i \in 1..Len(RawStages.items) : LacksExecutable(i))
    => /\ pc = "raised"
       /\ exc.kind = "WorkflowBuilderException"
       /\ exc.index = FirstLackingIndex

\* what validation of the parsed manifest does, from the inputs of the run
ValidationOutcome ==
    _get_validated_json(raw_json, src.path, src.files, WORKSPACE_ID)

\* C3: a /workflow/new request is issued only by build_workflow, only after
\* parsing and validation of the whole manifest returned; a run whose
\* parsing or validation raised has issued none.
C3_CreateOnlyAfterValidation ==
    /\ workflow_new_calls # <<>> =>
          /\ call = "build_workflow"
          /\ step = "create"
          /\ ~ValidationOutcome.raised
          /\ Len(workflow_new_calls) = 1
    /\ (pc = "raised" /\ step \in {"parse", "validate"}) => workflow_new_calls = <<>>

\* C3 witness: validation raised on a two-stage list whose first stage is
\* valid and whose second has no 'executable'; no request was issued.
C3_Witness ==
    /\ Validated /\ HasStageList /\ ProjectResolvable
    /\ Len(RawStages.items) = 2
    /\ ~LacksExecutable(1) /\ LacksExecutable(2)
    /\ pc = "raised" /\ step = "validate"
    /\ workflow_new_calls = <<>>

SupportedRootKeys == {"project", "name", "outputFolder", "stages"}
SupportedStageKeys == {"id", "input", "executable", "name", "folder"}

\* C4: a manifest with only supported keys whose stages are a list of stages
\* that each have 'executable' and only supported keys, with a resolvable
\* project, validates without error and without warnings, and the stage
\* list it returns is the input's, unchanged.
C4_ValidManifestAccepted ==
    (/\ Validated /\ ProjectResolvable /\ HasStageList
     /\ DOMAIN raw_json \subseteq SupportedRootKeys
     /\ \A i \in 1..Len(RawStages.items) :
           /\ ~LacksExecutable(i)
           /\ DOMAIN RawStages.items[i] \subseteq SupportedStageKeys)
    => /\ pc = "create"
       /\ warnings = <<>>
       /\ ~validated_spec.isNone
       /\ validated_spec.dict["stages"] = RawStages
       /\ validated_spec.dict["project"] =
              IF "project" \in DOMAIN raw_json THEN raw_json["project"]
              ELSE WORKSPACE_ID

UnsupportedRootKeys == DOMAIN raw_json \ SupportedRootKeys
RootWarnings == SelectSeq(warnings, LAMBDA w : w.level = "root")

\* C5: validation warns once about all unsupported top-level keys of the
\* manifest, does not fail because of them, and the manifest it returns
\* and hands to the create call has none of them.
C5_UnsupportedRootKeysDropped ==
    Validated
    => /\ RootWarnings = IF UnsupportedRootKeys # {}
                         THEN <<RootWarning(UnsupportedRootKeys)>> ELSE <<>>
       /\ pc = "raised" <=> _get_validated_json(
                                [k \in DOMAIN raw_json \cap SupportedRootKeys |-> raw_json[k]],
                                src.path, src.files, WORKSPACE_ID).raised
       /\ pc = "create" =>
             /\ ~validated_spec.isNone
             /\ DOMAIN validated_spec.dict \cap UnsupportedRootKeys = {}

\* C6: with no 'project' in the manifest, no workspace and no CLI
\* destination, validation fails with the project-not-set error whatever
\* readme files exist, and has added no 'description' and no
\* 'developerNotes' to the caller's manifest object.
C6_FailsBeforeInlining ==
    (/\ Validated
     /\ "project" \notin DOMAIN raw_json
     /\ ~WorkspaceSet
     /\ ~DestinationSet)
    => /\ pc = "raised"
       /\ exc = ProjectNotSet
       /\ \A k \in {"description", "developerNotes"} :
             k \in DOMAIN json_spec => k \in DOMAIN raw_json

-----------------------------------------------------------------------------
(* Properties of build() *)

\* build() has run _get_mode on a directory (no --app/--create-applet given)
ModeDetected ==
    call = "build" /\ step = "get_mode" /\ cli_mode = NoneVal /\ src.isdir

NoBuilderInvoked == dx_build_app_calls = 0 /\ workflow_new_calls = <<>>

\* C8: for a source directory, dxapp.json gives mode "app" whether or not
\* dxworkflow.json exists; else dxworkflow.json gives mode "workflow"; with
\* neither, build fails with ExecutableBuilderException and invokes no builder.
C8_ModeDetection ==
    /\ ModeDetected =>
          IF "dxapp.json" \in src.files
          THEN pc = "arg_conflicts" /\ args.mode = "app"
          ELSE IF "dxworkflow.json" \in src.files
          THEN pc = "arg_conflicts" /\ args.mode = "workflow"
          ELSE pc = "raised" /\ exc.kind = "ExecutableBuilderException"
    /\ exc.kind = "ExecutableBuilderException" =>
          pc = "raised" /\ step = "get_mode" /\ NoBuilderInvoked

\* C8 witness: both manifests exist and the detected mode is "app"
C8_Witness ==
    /\ ModeDetected
    /\ src.files = {"dxapp.json", "dxworkflow.json"}
    /\ pc = "arg_conflicts" /\ args.mode = "app"

\* the conflict rules as the options state them
OptionConflict(a) ==
    \/ a.mode = "app" /\ a.destination # "."
    \/ a.mode = "applet" /\ a.region
    \/ a.overwrite /\ a.archive
    \/ ~a.run.isNone /\ a.dry_run
    \/ ~a.run.isNone /\ a.remote /\ a.mode = "app"
    \/ a.mode = "workflow" /\ (a.ensure_upload \/ a.force_symlinks \/ a.publish)

Finished == pc \in {"returned", "raised"}

\* C9: build() of a directory holding only dxworkflow.json, with no
\* conflicting option, ends with exactly one /workflow/new request issued
\* and its id returned, or with a manifest, configuration or remote error.
C9_WorkflowEndToEnd ==
    (/\ call = "build" /\ Finished
     /\ cli_mode = NoneVal
     /\ src.isdir /\ src.files = {"dxworkflow.json"}
     /\ AUTH_HELPER
     /\ ~OptionConflict([args EXCEPT !.mode = "workflow"]))
    => /\ exc.kind \in {"none", "WorkflowBuilderException",
                        "ExecutableBuilderException", "ParserError", "DXAPIError"}
       /\ pc = "returned" =>
             Len(workflow_new_calls) = 1 /\ workflow_id # NoneVal

\* C10: when the options violate a conflict rule, build() ends at the
\* conflict check with a parser error and no builder is ever invoked.
C10_ConflictsFatalBeforeDispatch ==
    (/\ call = "build"
     /\ step \in {"arg_conflicts", "dispatch"}
     /\ OptionConflict(args))
    => /\ pc = "raised"
       /\ step = "arg_conflicts"
       /\ exc.kind = "ParserError"
       /\ NoBuilderInvoked

-----------------------------------------------------------------------------
(* _inline_documentation_files on its own: repeated calls on one manifest *)

MaxInlineCalls == 2

InlineManifests ==
    {[k \in K |-> IF k = "name" THEN "wf" ELSE "own text"] :
        K \in SUBSET {"description", "developerNotes", "name"}}

\* the first call, on any manifest in a directory with any of the readme files
inline_first ==
    /\ pc = "start"
    /\ \E m \in InlineManifests, f \in SUBSET AllReadmes :
         /\ src' = [path |-> "wfdir", isdir |-> TRUE, files |-> f]
         /\ json_before' = m
         /\ json_spec' = _inline_documentation_files(m, f)
    /\ call' = "_inline_documentation_files"
    /\ step' = "inline"
    /\ pc' = "inlined"
    /\ inline_calls' = 1
    /\ UNCHANGED <<cli_mode, args, AUTH_HELPER, WORKSPACE_ID, raw_json,
                   validated_spec, warnings, exc, workflow_new_calls,
                   dx_build_app_calls, workflow_id>>

\* a further call on the result of the previous one, in the same directory
inline_again ==
    /\ pc = "inlined"
    /\ inline_calls < MaxInlineCalls
    /\ json_before' = json_spec
    /\ json_spec' = _inline_documentation_files(json_spec, src.files)
    /\ inline_calls' = inline_calls + 1
    /\ UNCHANGED <<call, cli_mode, step, pc, args, AUTH_HELPER, WORKSPACE_ID,
                   src, raw_json, validated_spec, warnings, exc,
                   workflow_new_calls, dx_build_app_calls, workflow_id>>

NextInline == inline_first \/ inline_again

SpecInline == Init /\ [][NextInline]_vars

\* the field holds the text of the first of the three files that exists,
\* and is absent when none exists
FromFirstFile(spec, field, n1, n2, n3) ==
    IF n1 \in src.files THEN field \in DOMAIN spec /\ spec[field] = ReadFile(n1)
    ELSE IF n2 \in src.files THEN field \in DOMAIN spec /\ spec[field] = ReadFile(n2)
    ELSE IF n3 \in src.files THEN field \in DOMAIN spec /\ spec[field] = ReadFile(n3)
    ELSE field \notin DOMAIN spec

\* C7: inlining keeps every field the manifest already has, a second call on
\* its own result changes nothing, and an absent description (developerNotes)
\* becomes the text of the first existing file of README.md, Readme.md,
\* readme.md (README.developer.md, Readme.developer.md, readme.developer.md)
\* or stays absent when none exists.
C7_InliningNeverOverwrites ==
    inline_calls >= 1 =>
      /\ \A k \in DOMAIN json_before :
            k \in DOMAIN json_spec /\ json_spec[k] = json_before[k]
      /\ DOMAIN json_spec \subseteq
            DOMAIN json_before \cup {"description", "developerNotes"}
      /\ "description" \notin DOMAIN json_before =>
            FromFirstFile(json_spec, "description",
                          "README.md", "Readme.md", "readme.md")
      /\ "developerNotes" \notin DOMAIN json_before =>
            FromFirstFile(json_spec, "developerNotes", "README.developer.md",
                          "Readme.developer.md", "readme.developer.md")
      /\ inline_calls >= 2 => json_spec = json_before

\* C7 witness: the manifest had its own description and no developerNotes,
\* the directory has README.md and two developer readmes but not the first;
\* after the second call description is kept and developerNotes is the
\* text of Readme.developer.md.
C7_Witness ==
    /\ inline_calls = 2
    /\ src.files = {"README.md", "Readme.developer.md", "readme.developer.md"}
    /\ json_before = json_spec
    /\ {"description", "developerNotes"} \subseteq DOMAIN json_spec
    /\ json_spec["description"] = "own text"
    /\ json_spec["developerNotes"] = ReadFile("Readme.developer.md")

-----------------------------------------------------------------------------
(* --destination, and the payload of the create request *)

DestinationError ==
    ParserError("--destination cannot be used when creating an app")

\* C11: without --app/--create-app (no mode option, or --create-applet) and
\* with no other conflict, a non-default --destination passes the conflict
\* check, and an app/applet build then invokes dx_build_app.build; the
\* --destination error is raised only when --app/--create-app was given.
C11_DestinationValidWithoutApp ==
    /\ (/\ call = "build"
        /\ cli_mode \in {NoneVal, "applet"}
        /\ args.destination # "."
        /\ ~OptionConflict([args EXCEPT !.destination = "."])
        /\ step \in {"arg_conflicts", "dispatch"})
       => /\ step = "arg_conflicts" => pc = "dispatch"
          /\ (step = "dispatch" /\ args.mode \in {"app", "applet"}) =>
                pc = "returned" /\ dx_build_app_calls = 1
    /\ exc = DestinationError => cli_mode = "app"

\* C12: every /workflow/new request build_workflow issues carries a
\* validated manifest (never None) whose 'project' is set to a non-empty
\* value.
C12_CreateCarriesProject ==
    \A i \in 1..Len(workflow_new_calls) :
        /\ ~workflow_new_calls[i].isNone
        /\ "project" \in DOMAIN workflow_new_calls[i].dict
        /\ Truthy(workflow_new_calls[i].dict["project"])

====
